---------------------------- MODULE Spec2Model ----------------------------
(***************************************************************************)
(* memorable-ids (Go): the generator, the parser and the combinatorics of  *)
(* src/memorable_ids.go over the word lists of src/dictionary.go.          *)
(*                                                                         *)
(* A Go string is modelled as a sequence of characters, each character a   *)
(* one-character TLA+ string; a *string is a sequence of length 0 (nil) or *)
(* 1 (a pointer to that string).  A Go int is modelled with the width of   *)
(* a 32-bit build (GOARCH=386, arm); products wrap modulo 2^32.            *)
(***************************************************************************)
EXTENDS Integers, Sequences, FiniteSets, TLC

VARIABLES
  op,          \* the operation that returned last
  args,        \* its arguments
  ret,         \* what it returned
  parts,       \* Generate: the local slice `parts` as it was joined
  suffixValue, \* Generate: what options.Suffix() returned (a *string)
  stream,      \* Generate: the random stream the call consumed
  dictionary,  \* the package-level word lists Adjectives .. Prepositions
  pc,          \* concurrent callers: where each caller stands in its call
  source       \* concurrent callers: the position of the shared random source

vars == <<op, args, ret, parts, suffixValue, stream, dictionary, pc, source>>

(***************************************************************************)
(* Bounds of the model.                                                    *)
(***************************************************************************)
\* Components is drawn from (0 - CompSlack) .. (5 + CompSlack).
CompSlack == 2
\* The random source: a call's draws are the raw values base + d, with
\* base < RandBase fixed for the call and d < RandSpread chosen per draw;
\* rand.Intn(n) returns the raw value modulo n.
RandBase == 87
RandSpread == 2
\* Parse is called with every id of at most MaxIdLen characters.
MaxIdLen == 4

(***************************************************************************)
(* The word lists.                                                         *)
(***************************************************************************)
\* Adjectives: the word list of src/dictionary.go, each word a sequence of characters.
Adjectives ==
  <<
    <<"c","u","t","e">>, <<"d","a","p","p","e","r">>, <<"l","a","r","g","e">>,
    <<"s","m","a","l","l">>, <<"l","o","n","g">>, <<"s","h","o","r","t">>, <<"t","h","i","c","k">>,
    <<"n","a","r","r","o","w">>, <<"d","e","e","p">>, <<"f","l","a","t">>, <<"w","h","o","l","e">>,
    <<"l","o","w">>, <<"h","i","g","h">>, <<"n","e","a","r">>, <<"f","a","r">>, <<"f","a","s","t">>,
    <<"q","u","i","c","k">>, <<"s","l","o","w">>, <<"e","a","r","l","y">>, <<"l","a","t","e">>,
    <<"b","r","i","g","h","t">>, <<"d","a","r","k">>, <<"c","l","o","u","d","y">>,
    <<"w","a","r","m">>, <<"c","o","o","l">>, <<"c","o","l","d">>, <<"w","i","n","d","y">>,
    <<"n","o","i","s","y">>, <<"l","o","u","d">>, <<"q","u","i","e","t">>, <<"d","r","y">>,
    <<"c","l","e","a","r">>, <<"h","a","r","d">>, <<"s","o","f","t">>, <<"h","e","a","v","y">>,
    <<"l","i","g","h","t">>, <<"s","t","r","o","n","g">>, <<"w","e","a","k">>, <<"t","i","d","y">>,
    <<"c","l","e","a","n">>, <<"d","i","r","t","y">>, <<"e","m","p","t","y">>, <<"f","u","l","l">>,
    <<"c","l","o","s","e">>, <<"t","h","i","r","s","t","y">>, <<"h","u","n","g","r","y">>,
    <<"f","a","t">>, <<"o","l","d">>, <<"f","r","e","s","h">>, <<"d","e","a","d">>,
    <<"h","e","a","l","t","h","y">>, <<"s","w","e","e","t">>, <<"s","o","u","r">>,
    <<"b","i","t","t","e","r">>, <<"s","a","l","t","y">>, <<"g","o","o","d">>, <<"b","a","d">>,
    <<"g","r","e","a","t">>, <<"i","m","p","o","r","t","a","n","t">>, <<"u","s","e","f","u","l">>,
    <<"e","x","p","e","n","s","i","v","e">>, <<"c","h","e","a","p">>, <<"f","r","e","e">>,
    <<"d","i","f","f","i","c","u","l","t">>, <<"a","b","l","e">>, <<"r","i","c","h">>,
    <<"a","f","r","a","i","d">>, <<"b","r","a","v","e">>, <<"f","i","n","e">>, <<"s","a","d">>,
    <<"p","r","o","u","d">>, <<"c","o","m","f","o","r","t","a","b","l","e">>,
    <<"h","a","p","p","y">>, <<"c","l","e","v","e","r">>,
    <<"i","n","t","e","r","e","s","t","i","n","g">>, <<"f","a","m","o","u","s">>,
    <<"e","x","c","i","t","i","n","g">>, <<"f","u","n","n","y">>, <<"k","i","n","d">>,
    <<"p","o","l","i","t","e">>, <<"f","a","i","r">>, <<"b","u","s","y">>, <<"l","a","z","y">>,
    <<"l","u","c","k","y">>, <<"c","a","r","e","f","u","l">>, <<"s","a","f","e">>,
    <<"d","a","n","g","e","r","o","u","s">>
  >>

\* Nouns: the word list of src/dictionary.go, each word a sequence of characters.
Nouns ==
  <<
    <<"r","a","b","b","i","t">>, <<"b","a","d","g","e","r">>, <<"f","o","x">>,
    <<"c","h","i","c","k","e","n">>, <<"b","a","t">>, <<"d","e","e","r">>, <<"s","n","a","k","e">>,
    <<"h","a","r","e">>, <<"h","e","d","g","e","h","o","g">>, <<"p","l","a","t","y","p","u","s">>,
    <<"m","o","l","e">>, <<"m","o","u","s","e">>, <<"o","t","t","e","r">>, <<"r","a","t">>,
    <<"s","q","u","i","r","r","e","l">>, <<"s","t","o","a","t">>, <<"w","e","a","s","e","l">>,
    <<"c","r","o","w">>, <<"d","o","v","e">>, <<"d","u","c","k">>, <<"g","o","o","s","e">>,
    <<"h","a","w","k">>, <<"h","e","r","o","n">>, <<"k","i","n","g","f","i","s","h","e","r">>,
    <<"o","w","l">>, <<"p","e","a","c","o","c","k">>, <<"p","h","e","a","s","a","n","t">>,
    <<"p","i","g","e","o","n">>, <<"r","o","b","i","n">>, <<"r","o","o","k">>,
    <<"s","p","a","r","r","o","w">>, <<"s","t","a","r","l","i","n","g">>, <<"s","w","a","n">>,
    <<"a","n","t">>, <<"b","e","e">>, <<"b","u","t","t","e","r","f","l","y">>,
    <<"d","r","a","g","o","n","f","l","y">>, <<"f","l","y">>, <<"m","o","t","h">>,
    <<"s","p","i","d","e","r">>, <<"p","i","k","e">>, <<"s","a","l","m","o","n">>,
    <<"t","r","o","u","t">>, <<"f","r","o","g">>, <<"n","e","w","t">>, <<"t","o","a","d">>,
    <<"c","r","a","b">>, <<"l","o","b","s","t","e","r">>, <<"c","l","a","m">>,
    <<"c","o","c","k","l","e">>, <<"m","u","s","s","e","l">>, <<"o","y","s","t","e","r">>,
    <<"s","n","a","i","l">>, <<"c","o","w">>, <<"d","o","g">>, <<"d","o","n","k","e","y">>,
    <<"g","o","a","t">>, <<"h","o","r","s","e">>, <<"p","i","g">>, <<"s","h","e","e","p">>,
    <<"f","e","r","r","e","t">>, <<"g","e","r","b","i","l">>,
    <<"g","u","i","n","e","a","-","p","i","g">>, <<"p","a","r","r","o","t">>, <<"b","o","o","k">>,
    <<"t","a","b","l","e">>, <<"c","h","a","i","r">>, <<"l","a","m","p">>, <<"p","h","o","n","e">>,
    <<"c","o","m","p","u","t","e","r">>, <<"w","i","n","d","o","w">>, <<"d","o","o","r">>
  >>

\* Verbs: the word list of src/dictionary.go, each word a sequence of characters.
Verbs ==
  <<
    <<"s","i","n","g">>, <<"p","l","a","y">>, <<"k","n","i","t">>,
    <<"f","l","o","u","n","d","e","r">>, <<"d","a","n","c","e">>, <<"l","i","s","t","e","n">>,
    <<"r","u","n">>, <<"t","a","l","k">>, <<"c","u","d","d","l","e">>, <<"s","i","t">>,
    <<"k","i","s","s">>, <<"h","u","g">>, <<"w","h","i","m","p","e","r">>, <<"h","i","d","e">>,
    <<"f","i","g","h","t">>, <<"w","h","i","s","p","e","r">>, <<"c","r","y">>,
    <<"s","n","u","g","g","l","e">>, <<"w","a","l","k">>, <<"d","r","i","v","e">>,
    <<"l","o","i","t","e","r">>, <<"f","e","e","l">>, <<"j","u","m","p">>, <<"h","o","p">>,
    <<"g","o">>, <<"m","a","r","r","y">>, <<"e","n","g","a","g","e">>, <<"s","l","e","e","p">>,
    <<"e","a","t">>, <<"d","r","i","n","k">>, <<"r","e","a","d">>, <<"w","r","i","t","e">>,
    <<"s","w","i","m">>, <<"f","l","y">>, <<"c","l","i","m","b">>, <<"b","u","i","l","d">>,
    <<"c","r","e","a","t","e">>, <<"e","x","p","l","o","r","e">>,
    <<"d","i","s","c","o","v","e","r">>, <<"l","e","a","r","n">>
  >>

\* Adverbs: the word list of src/dictionary.go, each word a sequence of characters.
Adverbs ==
  <<
    <<"j","o","v","i","a","l","l","y">>, <<"m","e","r","r","i","l","y">>,
    <<"c","o","r","d","i","a","l","l","y">>, <<"c","a","r","e","f","u","l","l","y">>,
    <<"c","o","r","r","e","c","t","l","y">>, <<"e","a","g","e","r","l","y">>,
    <<"e","a","s","i","l","y">>, <<"f","a","s","t">>, <<"l","o","u","d","l","y">>,
    <<"p","a","t","i","e","n","t","l","y">>, <<"q","u","i","c","k","l","y">>,
    <<"q","u","i","e","t","l","y">>, <<"s","l","o","w","l","y">>, <<"g","e","n","t","l","y">>,
    <<"f","i","r","m","l","y">>, <<"s","o","f","t","l","y">>, <<"b","o","l","d","l","y">>,
    <<"b","r","a","v","e","l","y">>, <<"c","a","l","m","l","y">>, <<"c","l","e","a","r","l","y">>,
    <<"c","l","o","s","e","l","y">>, <<"d","e","e","p","l","y">>,
    <<"d","i","r","e","c","t","l","y">>, <<"e","x","a","c","t","l","y">>,
    <<"f","a","i","r","l","y">>, <<"f","r","e","e","l","y">>, <<"f","u","l","l","y">>
  >>

\* Prepositions: the word list of src/dictionary.go, each word a sequence of characters.
Prepositions ==
  <<
    <<"i","n">>, <<"o","n">>, <<"a","t">>, <<"b","y">>, <<"f","o","r">>, <<"w","i","t","h">>,
    <<"f","r","o","m">>, <<"t","o">>, <<"o","f">>, <<"a","b","o","u","t">>, <<"u","n","d","e","r">>,
    <<"o","v","e","r">>, <<"t","h","r","o","u","g","h">>, <<"b","e","t","w","e","e","n">>,
    <<"a","m","o","n","g">>, <<"d","u","r","i","n","g">>, <<"b","e","f","o","r","e">>,
    <<"a","f","t","e","r">>, <<"a","b","o","v","e">>, <<"b","e","l","o","w">>,
    <<"b","e","s","i","d","e">>, <<"b","e","h","i","n","d">>, <<"b","e","y","o","n","d">>,
    <<"w","i","t","h","i","n">>, <<"w","i","t","h","o","u","t">>, <<"a","c","r","o","s","s">>
  >>

(***************************************************************************)
(* Strings.                                                                *)
(***************************************************************************)
Digits == {"0", "1", "2", "3", "4", "5", "6", "7", "8", "9"}

\* strings.HasPrefix(SubSeq(s, i, Len(s)), sep): sep occurs in s at index i.
OccursAt(s, sep, i) ==
  /\ i + Len(sep) - 1 <= Len(s)
  /\ SubSeq(s, i, i + Len(sep) - 1) = sep

\* strings.Index(s, sep), 1-based; 0 when sep does not occur in s.
RECURSIVE IndexFrom(_, _, _)
IndexFrom(s, sep, i) ==
  IF i + Len(sep) - 1 > Len(s) THEN 0
  ELSE IF OccursAt(s, sep, i) THEN i
  ELSE IndexFrom(s, sep, i + 1)

Index(s, sep) == IndexFrom(s, sep, 1)

\* strings.Split(s, sep): the parts of s between the occurrences of sep, found
\* left to right; an empty sep explodes s into its characters.
RECURSIVE SplitSep(_, _)
SplitSep(s, sep) ==
  LET m == Index(s, sep) IN
    IF m = 0 THEN <<s>>
    ELSE <<SubSeq(s, 1, m - 1)>> \o SplitSep(SubSeq(s, m + Len(sep), Len(s)), sep)

\* A split that leaves out the empty parts.
SplitNonEmpty(s, sep) ==
  IF sep = <<>> THEN [i \in 1..Len(s) |-> <<s[i]>>]
  ELSE SelectSeq(SplitSep(s, sep), LAMBDA part : part # <<>>)

Split(s, sep) ==
  IF sep = <<>> THEN [i \in 1..Len(s) |-> <<s[i]>>]
  ELSE SplitSep(s, sep)

\* A join that writes the separator before every element, the first included.
RECURSIVE JoinLeadingSep(_, _)
JoinLeadingSep(elems, sep) ==
  IF elems = <<>> THEN <<>>
  ELSE sep \o elems[1] \o JoinLeadingSep(Tail(elems), sep)

\* strings.Join(elems, sep).
RECURSIVE Join(_, _)
Join(elems, sep) ==
  IF elems = <<>> THEN <<>>
  ELSE IF Len(elems) = 1 THEN elems[1]
  ELSE elems[1] \o sep \o Join(Tail(elems), sep)

\* regexp.MatchString(`^\d+$`, s): one or more ASCII digits and nothing else.
MatchDigitsMissingPlus(s) ==
  \A i \in 1..Len(s) : s[i] \in Digits

MatchHexDigits(s) ==
  Len(s) > 0 /\ \A i \in 1..Len(s) : s[i] \in Digits \cup {"a", "b", "c", "d", "e", "f"}

MatchDigits(s) ==
  Len(s) > 0 /\ \A i \in 1..Len(s) : s[i] \in Digits

\* fmt.Sprintf("%0<width>d", v) for v >= 0.
RECURSIVE FormatDec(_)
FormatDec(v) ==
  LET d == <<"0", "1", "2", "3", "4", "5", "6", "7", "8", "9">>[(v % 10) + 1] IN
    IF v < 10 THEN <<d>> ELSE Append(FormatDec(v \div 10), d)

RECURSIVE ZeroPad(_, _)
ZeroPad(s, width) ==
  IF Len(s) >= width THEN s ELSE ZeroPad(<<"0">> \o s, width)

Sprintf0d(width, v) == ZeroPad(FormatDec(v), width)

(***************************************************************************)
(* The random source.                                                      *)
(***************************************************************************)
\* The raw values one call can draw: draw k of the call is base + offs[k].
RandStreams(n) ==
  [base : 0..(RandBase - 1), offs : [1..n -> 0..(RandSpread - 1)]]

\* rand.Intn(n) on draw k of stream rnd.
Intn(rnd, k, n) == (rnd.base + rnd.offs[k]) % n

\* randomItem(items) on draw k of stream rnd.
randomItem(rnd, k, items) == items[Intn(rnd, k, Len(items)) + 1]

(***************************************************************************)
(* Generate.                                                               *)
(***************************************************************************)
\* componentGenerators: position -> word list, in the fixed order.
componentGenerators ==
  <<dictionary.Adjectives, dictionary.Nouns, dictionary.Verbs, dictionary.Adverbs,
    dictionary.Prepositions>>

ErrComponents == "components must be between 1 and 5"
NoError == "nil"

\* The suffix producers the model calls Generate with: no producer
\* (options.Suffix == nil), a producer returning nil, one returning "", one
\* returning "   ", and SuffixGenerators.Number (DefaultSuffix), .Hex and
\* .Letter.
SuffixKinds == {"none", "null", "empty", "blank", "Number", "Hex", "Letter"}

\* DefaultSuffix().
DefaultSuffix(rnd, k) == <<Sprintf0d(3, Intn(rnd, k, 1000))>>

\* fmt.Sprintf("%0<width>x", v) for v >= 0: lowercase hexadecimal.
RECURSIVE FormatHex(_)
FormatHex(v) ==
  LET d == <<"0", "1", "2", "3", "4", "5", "6", "7", "8", "9",
             "a", "b", "c", "d", "e", "f">>[(v % 16) + 1]
  IN IF v < 16 THEN <<d>> ELSE Append(FormatHex(v \div 16), d)

Sprintf0x(width, v) == ZeroPad(FormatHex(v), width)

\* An int64 count of milliseconds since the epoch, at or after it, kept as
\* millions (hi) and the rest (lo < 1000000): hi * 1000000 + lo.
\* strconv.FormatInt(t, 10).
FormatInt(t) ==
  IF t.hi = 0 THEN FormatDec(t.lo)
  ELSE FormatDec(t.hi) \o ZeroPad(FormatDec(t.lo), 6)

\* SuffixGenerators.Number4.
Number4(rnd, k) == <<Sprintf0d(4, Intn(rnd, k, 10000))>>

\* SuffixGenerators.Hex.
HexUnpadded(rnd, k) == <<FormatHex(Intn(rnd, k, 256))>>

Hex(rnd, k) == <<Sprintf0x(2, Intn(rnd, k, 256))>>

\* Whether SuffixGenerators.Timestamp, reading the clock as now (milliseconds
\* since the epoch), takes its suffix from the clock (len(timestamp) >= 4).
TimestampLongEnough(now) == Len(FormatInt(now)) >= 4

\* SuffixGenerators.Timestamp.
Timestamp(now, rnd, k) ==
  LET timestamp == FormatInt(now) IN
    IF TimestampLongEnough(now)
    THEN <<SubSeq(timestamp, Len(timestamp) - 3, Len(timestamp))>>
    ELSE <<Sprintf0d(4, Intn(rnd, k, 10000))>>

\* SuffixGenerators.Letter: string(rune('a' + rand.Intn(26))).
Letter(rnd, k) ==
  << <<(<<"a", "b", "c", "d", "e", "f", "g", "h", "i", "j", "k", "l", "m", "n", "o",
          "p", "q", "r", "s", "t", "u", "v", "w", "x", "y", "z">>)[Intn(rnd, k, 26) + 1]>> >>

\* The predefined producers, DefaultSuffix and the fields of SuffixGenerators.
SuffixGeneratorNames ==
  {"DefaultSuffix", "Number", "Number4", "Hex", "Timestamp", "Letter"}

\* A call of the predefined producer `name`, the clock reading now, on draw k
\* of stream rnd.
SuffixGenerator(name, now, rnd, k) ==
  CASE name = "DefaultSuffix" -> DefaultSuffix(rnd, k)
    [] name = "Number" -> DefaultSuffix(rnd, k)
    [] name = "Number4" -> Number4(rnd, k)
    [] name = "Hex" -> Hex(rnd, k)
    [] name = "Timestamp" -> Timestamp(now, rnd, k)
    [] name = "Letter" -> Letter(rnd, k)

\* The values rand.Intn can return to one call of producer `name`.
SuffixDraws(name, now) ==
  CASE name \in {"DefaultSuffix", "Number"} -> 0..999
    [] name = "Number4" -> 0..9999
    [] name = "Hex" -> 0..255
    [] name = "Timestamp" -> IF TimestampLongEnough(now) THEN {0} ELSE 0..9999
    [] name = "Letter" -> 0..25

\* options.Suffix() for a supplied producer, on draw k of stream rnd.
CallSuffix(kind, rnd, k) ==
  CASE kind = "null" -> <<>>
    [] kind = "empty" -> << <<>> >>
    [] kind = "blank" -> << <<" ", " ", " ">> >>
    [] kind = "Number" -> DefaultSuffix(rnd, k)
    [] kind = "Hex" -> Hex(rnd, k)
    [] kind = "Letter" -> Letter(rnd, k)

\* The draws of the random source one call of Generate makes.
ValidComponents(c) == c >= 1 /\ c <= 5

DefaultComponentsThree(c) == IF c = 0 THEN 3 ELSE c

DefaultComponents(c) == IF c = 0 THEN 2 ELSE c

DefaultSeparator(sep) == IF sep = <<>> THEN <<"-">> ELSE sep

DrawsOf(options) ==
  LET c == DefaultComponents(options.Components) IN
    IF ~ValidComponents(c) THEN 0
    ELSE c + (IF options.Suffix \in {"Number", "Hex", "Letter"} THEN 1 ELSE 0)

\* The words drawn by the loop `for i := 0; i < options.Components; i++`.
DrawWords(rnd, c) ==
  [i \in 1..c |-> randomItem(rnd, i, componentGenerators[i])]

\* `if suffixValue != nil { parts = append(parts, *suffixValue) }`
AppendSuffixSkipEmpty(ps, sv) ==
  IF sv # <<>> /\ sv[1] # <<>> THEN Append(ps, sv[1]) ELSE ps

AppendSuffix(ps, sv) ==
  IF sv # <<>> THEN Append(ps, sv[1]) ELSE ps

\* Generate(options) on random stream rnd: the returned (string, error), with
\* the locals `parts` and `suffixValue` as they stood at the return.
Generate(options, rnd) ==
  LET c == DefaultComponents(options.Components)
      sep == DefaultSeparator(options.Separator)
  IN
    IF ~ValidComponents(c)
    THEN [id |-> <<>>, err |-> ErrComponents, parts |-> <<>>, suffixValue |-> <<>>]
    ELSE
      LET words == DrawWords(rnd, c)
          sv == IF options.Suffix = "none" THEN <<>>
                ELSE CallSuffix(options.Suffix, rnd, c + 1)
          ps == IF options.Suffix = "none" THEN words ELSE AppendSuffix(words, sv)
      IN [id |-> Join(ps, sep), err |-> NoError, parts |-> ps, suffixValue |-> sv]

(***************************************************************************)
(* Parse.                                                                  *)
(***************************************************************************)
\* Parse(id, separator): ParsedID{Components, Suffix}.
Parse(id, separator) ==
  LET sep == DefaultSeparator(separator)
      ps == Split(id, sep)
  IN
    IF Len(ps) > 0
    THEN
      LET lastPart == ps[Len(ps)] IN
        IF MatchDigits(lastPart)
        THEN [Components |-> SubSeq(ps, 1, Len(ps) - 1), Suffix |-> <<lastPart>>]
        ELSE [Components |-> ps, Suffix |-> <<>>]
    ELSE [Components |-> <<>>, Suffix |-> <<>>]

(***************************************************************************)
(* Machine integers: Go's int on a 32-bit build.                           *)
(***************************************************************************)
MaxInt == 2147483647
MinInt == -MaxInt - 1

\* Byte k (0 = least significant) of the two's complement form of a.
ByteOf(a, k) ==
  CASE k = 0 -> a % 256
    [] k = 1 -> (a \div 256) % 256
    [] k = 2 -> (a \div 65536) % 256
    [] k = 3 -> (a \div 16777216) % 256

\* a * b in int arithmetic: the low 32 bits of the product, read as signed.
MulInt(a, b) ==
  LET A(k) == ByteOf(a, k)
      B(k) == ByteOf(b, k)
      c0 == A(0) * B(0)
      c1 == A(0) * B(1) + A(1) * B(0) + (c0 \div 256)
      c2 == A(0) * B(2) + A(1) * B(1) + A(2) * B(0) + (c1 \div 256)
      c3 == A(0) * B(3) + A(1) * B(2) + A(2) * B(1) + A(3) * B(0) + (c2 \div 256)
      r3 == c3 % 256
  IN (c0 % 256) + 256 * (c1 % 256) + 65536 * (c2 % 256)
       + 16777216 * (IF r3 >= 128 THEN r3 - 256 ELSE r3)

(***************************************************************************)
(* The dictionary accessors.                                               *)
(***************************************************************************)
\* GetDictionaryStats().
GetDictionaryStats ==
  [Adjectives |-> Len(dictionary.Adjectives), Nouns |-> Len(dictionary.Nouns),
   Verbs |-> Len(dictionary.Verbs), Adverbs |-> Len(dictionary.Adverbs),
   Prepositions |-> Len(dictionary.Prepositions)]

\* GetDictionary().
GetDictionaryVerbsForNouns ==
  [Adjectives |-> dictionary.Adjectives, Nouns |-> dictionary.Verbs,
   Verbs |-> dictionary.Verbs, Adverbs |-> dictionary.Adverbs,
   Prepositions |-> dictionary.Prepositions, Stats |-> GetDictionaryStats]

GetDictionary ==
  [Adjectives |-> dictionary.Adjectives, Nouns |-> dictionary.Nouns,
   Verbs |-> dictionary.Verbs, Adverbs |-> dictionary.Adverbs,
   Prepositions |-> dictionary.Prepositions, Stats |-> GetDictionaryStats]

(***************************************************************************)
(* The combinatorics.                                                      *)
(***************************************************************************)
\* `if components < 1 || components > 5 { return 0 }`
CombinationsInvalidDefaulting(components) == components < 0 \/ components > 5

CombinationsInvalid(components) == components < 1 \/ components > 5

\* `if suffixRange < 1 { suffixRange = 1 }`
ClampSuffixRange(suffixRange) == IF suffixRange < 1 THEN 1 ELSE suffixRange

\* componentSizes, in the fixed order.
componentSizesVerbsBeforeNouns ==
  LET stats == GetDictionaryStats IN
    <<stats.Adjectives, stats.Verbs, stats.Nouns, stats.Adverbs, stats.Prepositions>>

componentSizes ==
  LET stats == GetDictionaryStats IN
    <<stats.Adjectives, stats.Nouns, stats.Verbs, stats.Adverbs, stats.Prepositions>>

\* The loop `for i := 0; i < components; i++ { total *= componentSizes[i] }`
\* from total = 1.
RECURSIVE TotalAfter(_)
TotalAfter(i) ==
  IF i = 0 THEN 1 ELSE MulInt(TotalAfter(i - 1), componentSizes[i])

\* CalculateCombinations(components, suffixRange).
CalculateCombinations(components, suffixRange) ==
  IF CombinationsInvalid(components) THEN 0
  ELSE MulInt(TotalAfter(components), ClampSuffixRange(suffixRange))

\* The float64 results of CalculateCollisionProbability: the literals 1.0 and
\* 0.0, and 1.0 - math.Exp(exponent) with
\* exponent = -float64(num) / (2.0 * float64(den)).
FloatOne == [value |-> "1.0", num |-> 0, den |-> 0]
FloatZero == [value |-> "0.0", num |-> 0, den |-> 0]
Birthday(totalCombinations, generatedIDs) ==
  [value |-> "1.0 - math.Exp(exponent)",
   num |-> MulInt(generatedIDs, generatedIDs), den |-> totalCombinations]

\* CalculateCollisionProbability(totalCombinations, generatedIDs).
CollisionProbabilityZeroFirst(totalCombinations, generatedIDs) ==
  IF generatedIDs <= 1 THEN FloatZero
  ELSE IF generatedIDs >= totalCombinations THEN FloatOne
  ELSE Birthday(totalCombinations, generatedIDs)

CollisionProbabilityBelowOne(totalCombinations, generatedIDs) ==
  IF generatedIDs >= totalCombinations THEN FloatOne
  ELSE IF generatedIDs < 1 THEN FloatZero
  ELSE Birthday(totalCombinations, generatedIDs)

CalculateCollisionProbability(totalCombinations, generatedIDs) ==
  IF generatedIDs >= totalCombinations THEN FloatOne
  ELSE IF generatedIDs <= 1 THEN FloatZero
  ELSE Birthday(totalCombinations, generatedIDs)

\* The sign of the exponent of a birthday result decides where the float
\* lies: math.Exp(x) is in [0, 1] exactly when x <= 0 (x = -Inf included).
ExponentNonPositive(p) ==
  \/ p.den > 0 /\ p.num >= 0
  \/ p.den < 0 /\ p.num <= 0
  \/ p.den = 0 /\ p.num > 0

\* 0.0 <= p /\ p <= 1.0 for a float64 result p.
InUnitInterval(p) ==
  p.value \in {"1.0", "0.0"} \/ ExponentNonPositive(p)

\* testSizes of GetCollisionAnalysis.
testSizes == <<50, 100, 200, 500, 1000, 2000, 5000, 10000, 20000, 50000>>

\* int(float64(total) * 0.8): float64(total) is exact and the float64 product
\* has the integer part of 4 * total / 5 (the constant 0.8 is off by 2^-54 of
\* itself, less than half a step of the product), and int() drops the fraction.
Threshold(total) ==
  IF total >= 0
  THEN total - (total \div 5) - (IF total % 5 = 0 THEN 0 ELSE 1)
  ELSE total - (total \div 5)

\* `if size < threshold`
SizeShownAboveThreshold(size, threshold) == size > threshold

SizeShown(size, threshold) == size < threshold

\* One CollisionScenario; Percentage is fmt.Sprintf("%.2f%%", probability*100),
\* kept as the format and the probability it prints.
Scenario(total, size) ==
  LET probability == CalculateCollisionProbability(total, size) IN
    [IDs |-> size, Probability |-> probability,
     Percentage |-> [format |-> "%.2f%%", timesHundred |-> probability]]

\* The loop `for _, size := range testSizes` from the first k sizes on.
RECURSIVE ScenariosFrom(_, _, _)
ScenariosFrom(k, total, threshold) ==
  IF k > Len(testSizes) THEN <<>>
  ELSE (IF SizeShown(testSizes[k], threshold)
        THEN <<Scenario(total, testSizes[k])>> ELSE <<>>)
       \o ScenariosFrom(k + 1, total, threshold)

\* GetCollisionAnalysis(components, suffixRange).
GetCollisionAnalysis(components, suffixRange) ==
  LET total == CalculateCombinations(components, ClampSuffixRange(suffixRange))
      threshold == Threshold(total)
  IN [TotalCombinations |-> total, Scenarios |-> ScenariosFrom(1, total, threshold)]

(***************************************************************************)
(* The inputs of the calls.                                                *)
(***************************************************************************)
CompRange == (0 - CompSlack)..(5 + CompSlack)

Separators == {<<>>, <<"-">>, <<"_">>, <<"e">>}

ParseSeparators == Separators \cup {<<"-", "-">>}

ParseAlphabet == {"a", "1", "2", "3", "-", "_", "\n"}

ParseIds == UNION {[1..n -> ParseAlphabet] : n \in 0..MaxIdLen}

\* Machine integers: the small ones, the sizes the code and its tests use,
\* and the values around which a 32-bit product or square wraps.
IntSamples ==
  ((0 - CompSlack - 5)..(CompSlack + 11))
    \cup {MinInt, -46341, -1000, 50, 100, 200, 500, 1000, 5000, 6264, 46340, 46341,
          50000, 65536, 250560, 1000000, 148102322, 175893120, MaxInt}

NoStream == [base |-> 0, offs |-> <<>>]

\* Readings of the clock, in milliseconds since the epoch: the first
\* milliseconds, the values around 4 digits, and dates of this century.
Clocks ==
  [hi : {0, 1, 1793534}, lo : {0, 7, 42, 999, 1000, 1234, 9999, 10000, 400123, 999999}]

NoClock == [hi |-> 0, lo |-> 0]

(***************************************************************************)
(* The state machine: each action is one call of an exported function.     *)
(***************************************************************************)
Init ==
  /\ op = "none"
  /\ args = <<>>
  /\ ret = <<>>
  /\ parts = <<>>
  /\ suffixValue = <<>>
  /\ stream = NoStream
  /\ dictionary = [Adjectives |-> Adjectives, Nouns |-> Nouns, Verbs |-> Verbs,
                   Adverbs |-> Adverbs, Prepositions |-> Prepositions]
  /\ pc = <<>>
  /\ source = 0

GenerateCall ==
  /\ op = "none"
  /\ \E c \in CompRange, k \in SuffixKinds, sep \in Separators :
      LET options == [Components |-> c, Suffix |-> k, Separator |-> sep] IN
        \E r \in RandStreams(DrawsOf(options)) :
          LET g == Generate(options, r) IN
            /\ op' = "Generate"
            /\ args' = options
            /\ ret' = [id |-> g.id, err |-> g.err]
            /\ parts' = g.parts
            /\ suffixValue' = g.suffixValue
            /\ stream' = r
            /\ UNCHANGED <<dictionary, pc, source>>

ParseCall ==
  /\ op = "none"
  /\ \E id \in ParseIds, separator \in ParseSeparators :
      /\ op' = "Parse"
      /\ args' = [id |-> id, separator |-> separator]
      /\ ret' = Parse(id, separator)
      /\ parts' = <<>>
      /\ suffixValue' = <<>>
      /\ stream' = NoStream
      /\ UNCHANGED <<dictionary, pc, source>>

CalculateCombinationsCall ==
  /\ op = "none"
  /\ \E components \in CompRange, suffixRange \in IntSamples :
      /\ op' = "CalculateCombinations"
      /\ args' = [components |-> components, suffixRange |-> suffixRange]
      /\ ret' = CalculateCombinations(components, suffixRange)
      /\ parts' = <<>>
      /\ suffixValue' = <<>>
      /\ stream' = NoStream
      /\ UNCHANGED <<dictionary, pc, source>>

CalculateCollisionProbabilityCall ==
  /\ op = "none"
  /\ \E totalCombinations \in IntSamples, generatedIDs \in IntSamples :
      /\ op' = "CalculateCollisionProbability"
      /\ args' = [totalCombinations |-> totalCombinations, generatedIDs |-> generatedIDs]
      /\ ret' = CalculateCollisionProbability(totalCombinations, generatedIDs)
      /\ parts' = <<>>
      /\ suffixValue' = <<>>
      /\ stream' = NoStream
      /\ UNCHANGED <<dictionary, pc, source>>

\* A direct call of a predefined suffix producer.
SuffixGeneratorCall ==
  /\ op = "none"
  /\ \E name \in SuffixGeneratorNames :
      \E now \in (IF name = "Timestamp" THEN Clocks ELSE {NoClock}) :
        \E r \in SuffixDraws(name, now) :
          LET rs == [base |-> r, offs |-> <<0>>] IN
            /\ op' = "SuffixGenerator"
            /\ args' = [name |-> name, now |-> now]
            /\ ret' = SuffixGenerator(name, now, rs, 1)
            /\ parts' = <<>>
            /\ suffixValue' = <<>>
            /\ stream' = rs
            /\ UNCHANGED <<dictionary, pc, source>>

GetCollisionAnalysisCall ==
  /\ op = "none"
  /\ \E components \in CompRange, suffixRange \in IntSamples :
      /\ op' = "GetCollisionAnalysis"
      /\ args' = [components |-> components, suffixRange |-> suffixRange]
      /\ ret' = GetCollisionAnalysis(components, suffixRange)
      /\ parts' = <<>>
      /\ suffixValue' = <<>>
      /\ stream' = NoStream
      /\ UNCHANGED <<dictionary, pc, source>>

GetDictionaryStatsCall ==
  /\ op = "none"
  /\ op' = "GetDictionaryStats"
  /\ args' = <<>>
  /\ ret' = GetDictionaryStats
  /\ parts' = <<>>
  /\ suffixValue' = <<>>
  /\ stream' = NoStream
  /\ UNCHANGED <<dictionary, pc, source>>

GetDictionaryCall ==
  /\ op = "none"
  /\ op' = "GetDictionary"
  /\ args' = <<>>
  /\ ret' = GetDictionary
  /\ parts' = <<>>
  /\ suffixValue' = <<>>
  /\ stream' = NoStream
  /\ UNCHANGED <<dictionary, pc, source>>

\* The caller takes the result: the package keeps nothing of a call.
Return ==
  /\ op # "none"
  /\ op' = "none"
  /\ args' = <<>>
  /\ ret' = <<>>
  /\ parts' = <<>>
  /\ suffixValue' = <<>>
  /\ stream' = NoStream
  /\ UNCHANGED <<dictionary, pc, source>>

Next ==
  \/ GenerateCall
  \/ ParseCall
  \/ CalculateCombinationsCall
  \/ CalculateCollisionProbabilityCall
  \/ SuffixGeneratorCall
  \/ GetCollisionAnalysisCall
  \/ GetDictionaryStatsCall
  \/ GetDictionaryCall
  \/ Return

Spec == Init /\ [][Next]_vars

(***************************************************************************)
(* Concurrent callers.  Each caller runs one call at a time; op, args,     *)
(* ret, parts, suffixValue and stream are then per caller (stream: the     *)
(* values the caller has drawn so far).  The callers share the word lists  *)
(* and the random source of math/rand, whose top-level functions are safe  *)
(* for concurrent use: one rand.Intn is one step, it returns the value at  *)
(* the source's position and moves the source on.  Generate takes a step   *)
(* per draw; Parse and the calculations touch nothing shared and are one   *)
(* step each.                                                              *)
(***************************************************************************)
SourceLen == 3

Callers == {1, 2}

\* The raw value the shared source yields at position k; rand.Intn(n) is
\* that value modulo n.
SourceValue(k) == (15 + 47 * k) % RandBase

\* The random stream of a call that drew the values draws, in order.
StreamOf(draws) == [base |-> 0, offs |-> draws]

\* The options the concurrent callers pass to Generate.
GenerateInputs ==
  { [Components |-> 0, Suffix |-> "none", Separator |-> <<>>],
    [Components |-> 2, Suffix |-> "Number", Separator |-> <<"_">>],
    [Components |-> 1, Suffix |-> "empty", Separator |-> <<"-">>],
    [Components |-> 1, Suffix |-> "null", Separator |-> <<>>],
    [Components |-> 6, Suffix |-> "Number", Separator |-> <<>>] }

\* The arguments the concurrent callers pass to the other functions.
ParseInputs ==
  { [id |-> <<"a", "-", "1">>, separator |-> <<>>],
    [id |-> <<"a", "_", "a">>, separator |-> <<"_">>] }

CombinationsInputs ==
  { [components |-> 2, suffixRange |-> 1],
    [components |-> 5, suffixRange |-> 1000] }

ProbabilityInputs ==
  { [totalCombinations |-> 6264, generatedIDs |-> 100] }

\* `parts = append(parts, ...)` in caller p: parts is a local of the call.
AppendPartShared(ps, p, w) == [q \in DOMAIN ps |-> Append(ps[q], w)]

AppendPart(ps, p, w) == [ps EXCEPT ![p] = Append(@, w)]

InitConc ==
  /\ op = [p \in Callers |-> "none"]
  /\ args = [p \in Callers |-> <<>>]
  /\ ret = [p \in Callers |-> <<>>]
  /\ parts = [p \in Callers |-> <<>>]
  /\ suffixValue = [p \in Callers |-> <<>>]
  /\ stream = [p \in Callers |-> <<>>]
  /\ dictionary = [Adjectives |-> Adjectives, Nouns |-> Nouns, Verbs |-> Verbs,
                   Adverbs |-> Adverbs, Prepositions |-> Prepositions]
  /\ pc = [p \in Callers |-> "idle"]
  /\ source \in 0..(SourceLen - 1)

\* Generate up to `var parts []string`: the defaults and the range check.
GenerateEnterValidateFirst(p) ==
  /\ pc[p] = "idle"
  /\ \E options \in GenerateInputs :
       /\ op' = [op EXCEPT ![p] = "Generate"]
       /\ args' = [args EXCEPT ![p] = options]
       /\ IF ValidComponents(options.Components)
          THEN /\ pc' = [pc EXCEPT ![p] = "loop"]
               /\ UNCHANGED ret
          ELSE /\ pc' = [pc EXCEPT ![p] = "return"]
               /\ ret' = [ret EXCEPT ![p] = [id |-> <<>>, err |-> ErrComponents]]
  /\ UNCHANGED <<parts, suffixValue, stream, dictionary, source>>

GenerateEnter(p) ==
  /\ pc[p] = "idle"
  /\ \E options \in GenerateInputs :
       /\ op' = [op EXCEPT ![p] = "Generate"]
       /\ args' = [args EXCEPT ![p] = options]
       /\ IF ValidComponents(DefaultComponents(options.Components))
          THEN /\ pc' = [pc EXCEPT ![p] = "loop"]
               /\ UNCHANGED ret
          ELSE /\ pc' = [pc EXCEPT ![p] = "return"]
               /\ ret' = [ret EXCEPT ![p] = [id |-> <<>>, err |-> ErrComponents]]
  /\ UNCHANGED <<parts, suffixValue, stream, dictionary, source>>

\* One turn of `for i := 0; i < options.Components; i++`: the test, and the
\* append of componentGenerators[i]() with its one rand.Intn.
GenerateLoop(p) ==
  /\ pc[p] = "loop"
  /\ LET i == Len(parts[p]) IN
       IF i < DefaultComponents(args[p].Components)
       THEN LET raw == SourceValue(source)
                word == randomItem(StreamOf(<<raw>>), 1, componentGenerators[i + 1])
            IN /\ parts' = AppendPart(parts, p, word)
               /\ stream' = [stream EXCEPT ![p] = Append(@, raw)]
               /\ source' = (source + 1) % SourceLen
               /\ UNCHANGED pc
       ELSE /\ pc' = [pc EXCEPT ![p] = "suffix"]
            /\ UNCHANGED <<parts, stream, source>>
  /\ UNCHANGED <<op, args, ret, suffixValue, dictionary>>

\* `if options.Suffix != nil { ... }`: the producer's call, with its one
\* rand.Intn if it is DefaultSuffix, and the append of its result.
GenerateSuffix(p) ==
  /\ pc[p] = "suffix"
  /\ pc' = [pc EXCEPT ![p] = "join"]
  /\ LET kind == args[p].Suffix IN
       IF kind = "none"
       THEN UNCHANGED <<parts, suffixValue, stream, source>>
       ELSE LET raw == SourceValue(source)
                sv == CallSuffix(kind, StreamOf(<<raw>>), 1)
            IN /\ suffixValue' = [suffixValue EXCEPT ![p] = sv]
               /\ parts' = [parts EXCEPT ![p] = AppendSuffix(@, sv)]
               /\ IF kind = "Number"
                  THEN /\ stream' = [stream EXCEPT ![p] = Append(@, raw)]
                       /\ source' = (source + 1) % SourceLen
                  ELSE UNCHANGED <<stream, source>>
  /\ UNCHANGED <<op, args, ret, dictionary>>

\* `return strings.Join(parts, options.Separator), nil`
GenerateJoin(p) ==
  /\ pc[p] = "join"
  /\ pc' = [pc EXCEPT ![p] = "return"]
  /\ ret' = [ret EXCEPT ![p] =
               [id |-> Join(parts[p], DefaultSeparator(args[p].Separator)),
                err |-> NoError]]
  /\ UNCHANGED <<op, args, parts, suffixValue, stream, dictionary, source>>

ParseRun(p) ==
  /\ pc[p] = "idle"
  /\ \E a \in ParseInputs :
       /\ op' = [op EXCEPT ![p] = "Parse"]
       /\ args' = [args EXCEPT ![p] = a]
       /\ ret' = [ret EXCEPT ![p] = Parse(a.id, a.separator)]
  /\ pc' = [pc EXCEPT ![p] = "return"]
  /\ UNCHANGED <<parts, suffixValue, stream, dictionary, source>>

CalculateCombinationsRun(p) ==
  /\ pc[p] = "idle"
  /\ \E a \in CombinationsInputs :
       /\ op' = [op EXCEPT ![p] = "CalculateCombinations"]
       /\ args' = [args EXCEPT ![p] = a]
       /\ ret' = [ret EXCEPT ![p] = CalculateCombinations(a.components, a.suffixRange)]
  /\ pc' = [pc EXCEPT ![p] = "return"]
  /\ UNCHANGED <<parts, suffixValue, stream, dictionary, source>>

CalculateCollisionProbabilityRun(p) ==
  /\ pc[p] = "idle"
  /\ \E a \in ProbabilityInputs :
       /\ op' = [op EXCEPT ![p] = "CalculateCollisionProbability"]
       /\ args' = [args EXCEPT ![p] = a]
       /\ ret' = [ret EXCEPT ![p] =
                    CalculateCollisionProbability(a.totalCombinations, a.generatedIDs)]
  /\ pc' = [pc EXCEPT ![p] = "return"]
  /\ UNCHANGED <<parts, suffixValue, stream, dictionary, source>>

GetCollisionAnalysisRun(p) ==
  /\ pc[p] = "idle"
  /\ \E a \in CombinationsInputs :
       /\ op' = [op EXCEPT ![p] = "GetCollisionAnalysis"]
       /\ args' = [args EXCEPT ![p] = a]
       /\ ret' = [ret EXCEPT ![p] = GetCollisionAnalysis(a.components, a.suffixRange)]
  /\ pc' = [pc EXCEPT ![p] = "return"]
  /\ UNCHANGED <<parts, suffixValue, stream, dictionary, source>>

\* The caller takes the result; the locals of the call are gone.
ReturnToCaller(p) ==
  /\ pc[p] = "return"
  /\ pc' = [pc EXCEPT ![p] = "idle"]
  /\ op' = [op EXCEPT ![p] = "none"]
  /\ args' = [args EXCEPT ![p] = <<>>]
  /\ ret' = [ret EXCEPT ![p] = <<>>]
  /\ parts' = [parts EXCEPT ![p] = <<>>]
  /\ suffixValue' = [suffixValue EXCEPT ![p] = <<>>]
  /\ stream' = [stream EXCEPT ![p] = <<>>]
  /\ UNCHANGED <<dictionary, source>>

NextConc ==
  \E p \in Callers :
    \/ GenerateEnter(p)
    \/ GenerateLoop(p)
    \/ GenerateSuffix(p)
    \/ GenerateJoin(p)
    \/ ParseRun(p)
    \/ CalculateCombinationsRun(p)
    \/ CalculateCollisionProbabilityRun(p)
    \/ GetCollisionAnalysisRun(p)
    \/ ReturnToCaller(p)

SpecConc == InitConc /\ [][NextConc]_vars

(***************************************************************************)
(* Helpers of the properties.                                              *)
(***************************************************************************)
InList(w, items) == \E j \in 1..Len(items) : items[j] = w

Contains(s, sep) ==
  \E i \in 1..(Len(s) - Len(sep) + 1) : SubSeq(s, i, i + Len(sep) - 1) = sep

OnlyDigits(s) == s # <<>> /\ {s[i] : i \in 1..Len(s)} \subseteq Digits

Dash == <<"-">>

GenerateReturned == op = "Generate" /\ ret.err = NoError

\* The number of word components a successful Generate call draws.
Requested == IF args.Components = 0 THEN 2 ELSE args.Components

\* Product of the lengths of the first n word lists, in unbounded integers.
RECURSIVE ExactProduct(_)
ExactProduct(n) ==
  IF n = 0 THEN 1
  ELSE ExactProduct(n - 1) * Len(<<Adjectives, Nouns, Verbs, Adverbs, Prepositions>>[n])

(***************************************************************************)
(* C1.  For Components n in 1..5, no suffix producer and the separator     *)
(* "-", every result of Generate splits on "-" into exactly n parts, and   *)
(* part i is a word of the i-th word list.                                 *)
(* Fails: Nouns holds "guinea-pig", which contains the separator.          *)
(***************************************************************************)
C1_SplitGivesDictionaryWords ==
  (GenerateReturned /\ args.Components \in 1..5 /\ args.Suffix = "none"
     /\ args.Separator \in {<<>>, Dash})
  => LET ps == Split(ret.id, Dash) IN
       /\ Len(ps) = args.Components
       /\ \A i \in 1..Len(ps) : InList(ps[i], componentGenerators[i])

(***************************************************************************)
(* C2.  Round trip without suffix: for n in 1..5, Parse(id, "-") of every  *)
(* result id of Generate(Components n, no suffix, "-") has exactly n       *)
(* components and no suffix.                                               *)
(* Fails for the same word "guinea-pig" as C1.                             *)
(***************************************************************************)
C2_RoundTripWithoutSuffix ==
  (GenerateReturned /\ args.Components \in 1..5 /\ args.Suffix = "none"
     /\ args.Separator \in {<<>>, Dash})
  => LET parsed == Parse(ret.id, Dash) IN
       /\ Len(parsed.Components) = args.Components
       /\ parsed.Suffix = <<>>

(***************************************************************************)
(* C3.  Generate returns an error exactly when Components is negative or   *)
(* greater than 5; then the string is empty and the message is             *)
(* "components must be between 1 and 5".  Components = 0 never errors and  *)
(* returns what Components = 2 returns on the same random draws.           *)
(***************************************************************************)
C3_ErrorExactlyOutOfRange ==
  op = "Generate" =>
    /\ (ret.err # NoError) <=> (args.Components < 0 \/ args.Components > 5)
    /\ ret.err # NoError =>
         ret.id = <<>> /\ ret.err = "components must be between 1 and 5"
    /\ args.Components = 0 =>
         LET two == Generate([args EXCEPT !.Components = 2], stream) IN
           ret = [id |-> two.id, err |-> NoError]

C3_Witness ==
  /\ op = "Generate"
  /\ args.Components = 0
  /\ ret.err = NoError
  /\ Len(Split(ret.id, DefaultSeparator(args.Separator))) = 2

(***************************************************************************)
(* C4.  Parse splits id on the separator (an empty one is "-") and         *)
(* classifies only the last part: one or more ASCII digits and nothing     *)
(* else make it the suffix and the parts before it the components;         *)
(* otherwise all parts are components and there is no suffix.              *)
(* Parse("123") = ([], "123") and Parse("") = ([""], none).                *)
(***************************************************************************)
C4_ParseClassifiesLastPart ==
  op = "Parse" =>
    LET sep == IF args.separator = <<>> THEN Dash ELSE args.separator
        all == ret.Components \o ret.Suffix
    IN
      /\ Len(all) >= 1
      /\ Join(all, sep) = args.id
      /\ \A i \in 1..Len(all) : ~Contains(all[i], sep)
      /\ Len(ret.Suffix) <= 1
      /\ (ret.Suffix # <<>>) <=> OnlyDigits(all[Len(all)])
      /\ args.id = <<"1", "2", "3">> =>
           ret = [Components |-> <<>>, Suffix |-> << <<"1", "2", "3">> >>]
      /\ args.id = <<>> => ret = [Components |-> << <<>> >>, Suffix |-> <<>>]

C4_Witness ==
  /\ op = "Parse"
  /\ args.id = <<"1", "-", "2", "3">>
  /\ args.separator = <<>>
  /\ ret = [Components |-> << <<"1">> >>, Suffix |-> << <<"2", "3">> >>]

(***************************************************************************)
(* C5.  Suffix handling in Generate: with no producer, or a producer that  *)
(* returns nil, exactly the n words are joined and nothing is appended;    *)
(* when the producer returns a string, the empty and the blank one         *)
(* included, that value is appended verbatim as one more final part, so    *)
(* n + 1 parts are joined.                                                 *)
(***************************************************************************)
C5_SuffixAppendedVerbatim ==
  GenerateReturned =>
    LET n == Requested
        sep == IF args.Separator = <<>> THEN Dash ELSE args.Separator
        words == SubSeq(parts, 1, n)
    IN
      /\ Len(parts) >= n
      /\ \A i \in 1..n : InList(parts[i], componentGenerators[i])
      /\ args.Suffix \in {"none", "null"} => suffixValue = <<>>
      /\ args.Suffix = "empty" => suffixValue = << <<>> >>
      /\ args.Suffix = "blank" => suffixValue = << <<" ", " ", " ">> >>
      /\ args.Suffix = "Number" => Len(suffixValue) = 1
      /\ IF suffixValue = <<>>
         THEN Len(parts) = n /\ ret.id = Join(words, sep)
         ELSE /\ Len(parts) = n + 1
              /\ parts[n + 1] = suffixValue[1]
              /\ ret.id = Join(words, sep) \o sep \o suffixValue[1]

C5_Witness ==
  /\ GenerateReturned
  /\ args.Suffix = "empty"
  /\ args.Components = 2
  /\ Len(parts) = 3
  /\ ret.id[Len(ret.id)] = "-"

(***************************************************************************)
(* C6.  For components in 1..5 and every integer suffixRange,              *)
(* CalculateCombinations is the product of the lengths of the first        *)
(* `components` word lists times max(suffixRange, 1).                      *)
(* Fails: the int product wraps once it exceeds the int range.             *)
(***************************************************************************)
C6_ProductTimesSuffixRange ==
  (op = "CalculateCombinations" /\ args.components \in 1..5) =>
    LET P == ExactProduct(args.components)
        m == IF args.suffixRange < 1 THEN 1 ELSE args.suffixRange
    IN \* P * m as an unbounded integer: beyond MaxInt it is no int at all
      /\ m <= MaxInt \div P
      /\ ret = P * m

(***************************************************************************)
(* C7.  CalculateCombinations returns 0 for every components outside 1..5  *)
(* and every suffixRange; components = 0 is not defaulted to 2 here.       *)
(***************************************************************************)
C7_ZeroOutsideRange ==
  (op = "CalculateCombinations" /\ args.components \notin 1..5) => ret = 0

C7_Witness ==
  /\ op = "CalculateCombinations"
  /\ args.components = 0
  /\ args.suffixRange = 1000
  /\ ret = 0

(***************************************************************************)
(* C8.  CalculateCollisionProbability(total, generated) returns exactly    *)
(* 1.0 whenever generated >= total.                                        *)
(***************************************************************************)
C8_OneAtOrAboveTotal ==
  (op = "CalculateCollisionProbability"
     /\ args.generatedIDs >= args.totalCombinations)
  => ret = FloatOne

C8_Witness ==
  /\ op = "CalculateCollisionProbability"
  /\ args.generatedIDs = 1
  /\ args.totalCombinations = 1
  /\ ret = FloatOne

(***************************************************************************)
(* C9 as stated.  CalculateCollisionProbability returns exactly 0.0        *)
(* whenever generated <= 1, whatever the value of total.                   *)
(* Fails: generated >= total is tested first and returns 1.0.              *)
(***************************************************************************)
C9_ZeroForAtMostOne ==
  (op = "CalculateCollisionProbability" /\ args.generatedIDs <= 1)
  => ret = FloatZero

(***************************************************************************)
(* C9 as amended.  CalculateCollisionProbability returns exactly 0.0       *)
(* whenever generated <= 1 and generated < total.                          *)
(***************************************************************************)
C9_ZeroForAtMostOneBelowTotal ==
  (op = "CalculateCollisionProbability" /\ args.generatedIDs <= 1
     /\ args.generatedIDs < args.totalCombinations)
  => ret = FloatZero

C9_Witness ==
  /\ op = "CalculateCollisionProbability"
  /\ args.generatedIDs = 1
  /\ args.totalCombinations = 2
  /\ ret = FloatZero

(***************************************************************************)
(* C10.  For all machine integers total and generated the result of        *)
(* CalculateCollisionProbability lies within [0, 1]: in the branch         *)
(* 1 < generated < total the exponent, whose generated*generated is an     *)
(* int product, is not positive.                                           *)
(* Fails: the int square wraps to a negative number.                       *)
(***************************************************************************)
C10_ProbabilityInUnitInterval ==
  op = "CalculateCollisionProbability" => InUnitInterval(ret)

(***************************************************************************)
(* C11.  For a fixed total T, CalculateCollisionProbability is             *)
(* monotonically increasing in generated over 1 < generated < T: the       *)
(* value for a smaller generated is not greater.  Both values are          *)
(* 1.0 - math.Exp(-sq / (2.0 * T)) with T > 0, so they are ordered as      *)
(* their int squares sq are.                                               *)
(* Fails: the int square wraps (C10).                                      *)
(***************************************************************************)
C11_MonotoneInGenerated ==
  (op = "CalculateCollisionProbability" /\ 1 < args.generatedIDs
     /\ args.generatedIDs < args.totalCombinations)
  => \A g1 \in IntSamples :
       (1 < g1 /\ g1 < args.generatedIDs) =>
         CalculateCollisionProbability(args.totalCombinations, g1).num <= ret.num

(***************************************************************************)
(* C12.  The scenarios of GetCollisionAnalysis are exactly the candidates  *)
(* 50, 100, 200, 500, 1000, 2000, 5000, 10000, 20000, 50000 that are       *)
(* strictly less than the real number total * 0.8, in ascending order,     *)
(* with total = CalculateCombinations(components, max(suffixRange, 1)).    *)
(* Fails: the code compares with int(total * 0.8), so a candidate c with   *)
(* c < total * 0.8 < c + 1 is left out; such totals arise when the product *)
(* wraps (C6).                                                             *)
(***************************************************************************)
Candidates == <<50, 100, 200, 500, 1000, 2000, 5000, 10000, 20000, 50000>>

\* c < total * 0.8 over the reals, for a candidate c <= 50000.
BelowRealThreshold(c, total) ==
  IF total > 62500 THEN TRUE
  ELSE IF total <= 0 THEN FALSE
  ELSE 5 * c < 4 * total

C12_ScenariosBelowRealThreshold ==
  op = "GetCollisionAnalysis" =>
    LET total == ret.TotalCombinations
        below(c) == BelowRealThreshold(c, total)
    IN
      /\ total = CalculateCombinations(args.components,
                   IF args.suffixRange < 1 THEN 1 ELSE args.suffixRange)
      /\ [i \in 1..Len(ret.Scenarios) |-> ret.Scenarios[i].IDs]
           = SelectSeq(Candidates, below)

(***************************************************************************)
(* C13.  The word lists have the documented sizes: Adjectives 78, Nouns    *)
(* 68, Verbs 40, Adverbs 27, Prepositions 26; GetDictionaryStats reports   *)
(* these numbers, CalculateCombinations(2, 1) = 5304 and                   *)
(* CalculateCombinations(3, 1) = 212160.                                   *)
(* Fails: Adjectives has 87 words and Nouns 72.                            *)
(***************************************************************************)
C13_DocumentedSizes ==
  /\ op = "GetDictionaryStats" =>
       ret = [Adjectives |-> 78, Nouns |-> 68, Verbs |-> 40, Adverbs |-> 27,
              Prepositions |-> 26]
  /\ (op = "CalculateCombinations" /\ args.suffixRange = 1) =>
       /\ args.components = 2 => ret = 5304
       /\ args.components = 3 => ret = 212160

(***************************************************************************)
(* C14.  Every predefined suffix producer returns a present string of its  *)
(* documented format on every call: Number and DefaultSuffix exactly 3     *)
(* decimal digits, Number4 exactly 4, Hex exactly 2 lowercase hexadecimal  *)
(* digits, Timestamp exactly 4 decimal digits, Letter exactly one          *)
(* lowercase letter.  The clock reads a time at or after the epoch.        *)
(***************************************************************************)
HexDigits == Digits \cup {"a", "b", "c", "d", "e", "f"}

LowerLetters ==
  {"a", "b", "c", "d", "e", "f", "g", "h", "i", "j", "k", "l", "m", "n", "o", "p", "q",
   "r", "s", "t", "u", "v", "w", "x", "y", "z"}

\* s has exactly n characters, all of them in chars.
HasFormat(s, n, chars) == Len(s) = n /\ \A i \in 1..Len(s) : s[i] \in chars

C14_SuffixFormats ==
  op = "SuffixGenerator" =>
    /\ Len(ret) = 1
    /\ args.name \in {"DefaultSuffix", "Number"} => HasFormat(ret[1], 3, Digits)
    /\ args.name = "Number4" => HasFormat(ret[1], 4, Digits)
    /\ args.name = "Hex" => HasFormat(ret[1], 2, HexDigits)
    /\ args.name = "Timestamp" => HasFormat(ret[1], 4, Digits)
    /\ args.name = "Letter" => HasFormat(ret[1], 1, LowerLetters)

C14_Witness ==
  /\ op = "SuffixGenerator"
  /\ args.name = "Hex"
  /\ stream.base = 10
  /\ ret = << <<"0", "a">> >>

(***************************************************************************)
(* C15.  Round trip with a numeric suffix: for n in 1..5, Parse(id, "-")   *)
(* of every result id of Generate(Components n, Suffix Number, "-") has    *)
(* exactly n components and the suffix the producer returned, 3 digits.    *)
(* Fails for the word "guinea-pig" (C1): there are n + 1 components.       *)
(***************************************************************************)
C15_RoundTripWithNumber ==
  (GenerateReturned /\ args.Components \in 1..5 /\ args.Suffix = "Number"
     /\ args.Separator \in {<<>>, Dash})
  => LET parsed == Parse(ret.id, Dash) IN
       /\ Len(parsed.Components) = args.Components
       /\ parsed.Suffix = suffixValue
       /\ Len(suffixValue) = 1
       /\ HasFormat(suffixValue[1], 3, Digits)

(***************************************************************************)
(* C16 as stated.  The string a successful Generate returns never begins   *)
(* with the separator and never ends with it, for every valid Components,  *)
(* separator and suffix producer.                                          *)
(* Fails: an empty suffix leaves the separator last ("cute-rabbit-"), and  *)
(* a separator such as "e" begins or ends a word.                          *)
(***************************************************************************)
BeginsWith(s, sep) == Len(s) >= Len(sep) /\ SubSeq(s, 1, Len(sep)) = sep

EndsWith(s, sep) ==
  Len(s) >= Len(sep) /\ SubSeq(s, Len(s) - Len(sep) + 1, Len(s)) = sep

EffectiveSeparator == IF args.Separator = <<>> THEN Dash ELSE args.Separator

ListNames == {"Adjectives", "Nouns", "Verbs", "Adverbs", "Prepositions"}

InitialLists ==
  [Adjectives |-> Adjectives, Nouns |-> Nouns, Verbs |-> Verbs,
   Adverbs |-> Adverbs, Prepositions |-> Prepositions]

CurrentLengths == [name \in ListNames |-> Len(dictionary[name])]

C18_ListsUnchangedAndReported ==
  /\ dictionary = InitialLists
  /\ op = "GetDictionaryStats" => ret = CurrentLengths
  /\ op = "GetDictionary" =>
       /\ \A name \in ListNames : ret[name] = dictionary[name]
       /\ ret.Stats = CurrentLengths

C18_Witness ==
  /\ op = "GetDictionary"
  /\ ret.Nouns = Nouns
  /\ ret.Verbs = Verbs
  /\ ret.Stats.Nouns = 72
  /\ ret.Stats.Verbs = 40

(***************************************************************************)
(* C19.  For n in 1..5, the strings Generate(Components n, no suffix,      *)
(* separator "-") returns are as many as CalculateCombinations(n, 1):      *)
(* every returned string is the join of exactly one tuple of words of the  *)
(* first n lists, the tuple drawn, and CalculateCombinations(n, 1) is the   *)
(* number of such tuples, the product of the numbers of distinct words of  *)
(* the lists.                                                              *)
(***************************************************************************)
WordLists == <<Adjectives, Nouns, Verbs, Adverbs, Prepositions>>

\* The words of the k-th list, as a set.
Words(k) == {WordLists[k][j] : j \in 1..Len(WordLists[k])}

\* The tuples (w_k, ..., w_n), w_i a word of list i, that join with "-" to s.
RECURSIVE Decompositions(_, _, _)
Decompositions(s, k, n) ==
  UNION {
    IF k = n THEN (IF s = w THEN {<<w>>} ELSE {})
    ELSE IF BeginsWith(s, w \o Dash)
         THEN {<<w>> \o t :
                 t \in Decompositions(SubSeq(s, Len(w) + 2, Len(s)), k + 1, n)}
         ELSE {}
    : w \in Words(k) }

\* The number of tuples of distinct words of the first n lists.
RECURSIVE DistinctTuples(_)
DistinctTuples(n) ==
  IF n = 0 THEN 1
  ELSE DistinctTuples(n - 1)
         * Cardinality(Words(n))

C19_CombinationsCountIds ==
  (GenerateReturned /\ args.Components \in 1..5 /\ args.Suffix = "none"
     /\ args.Separator \in {<<>>, Dash})
  => /\ Decompositions(ret.id, 1, args.Components)
          = {SubSeq(parts, 1, args.Components)}
     /\ \A i \in 1..args.Components : InList(parts[i], WordLists[i])
     /\ CalculateCombinations(args.Components, 1) = DistinctTuples(args.Components)

C19_Witness ==
  /\ GenerateReturned
  /\ args.Components = 5
  /\ args.Suffix = "none"
  /\ args.Separator = Dash
  /\ parts[2] = Nouns[63]
  /\ Cardinality(Decompositions(ret.id, 1, 5)) = 1
  /\ CalculateCombinations(5, 1) = 175893120

(***************************************************************************)
(* C20.  The five word lists are pairwise disjoint: the word Generate      *)
(* draws for position i occurs in no list other than the i-th.             *)
(* Fails: "fast" is an adjective and an adverb, "fly" a noun and a verb.   *)
(***************************************************************************)
C20_WordIdentifiesList ==
  GenerateReturned =>
    \A i \in 1..Requested : \A j \in (1..5) \ {i} :
      ~InList(parts[i], WordLists[j])

(***************************************************************************)
(* C17.  Under any interleaving of the callers' steps, each call returns   *)
(* what the same call returns when run alone on the values it drew from    *)
(* the shared source: a Generate in progress holds exactly the words of    *)
(* its own draws, and its result, parts and suffix are those of Generate   *)
(* alone with its own options; Parse and the calculations return the       *)
(* function of their own arguments.                                        *)
(***************************************************************************)
InGenerate(p) == op[p] = "Generate" /\ pc[p] \in {"loop", "suffix", "join"}

C17_ConcurrentAsAlone ==
  \A p \in Callers :
    /\ InGenerate(p) /\ pc[p] \in {"loop", "suffix"} =>
         /\ Len(stream[p]) <= DefaultComponents(args[p].Components)
         /\ parts[p] = DrawWords(StreamOf(stream[p]), Len(stream[p]))
    /\ InGenerate(p) /\ pc[p] = "join" =>
         LET alone == Generate(args[p], StreamOf(stream[p])) IN
           /\ Len(stream[p]) = DrawsOf(args[p])
           /\ parts[p] = alone.parts
           /\ suffixValue[p] = alone.suffixValue
    /\ pc[p] = "return" /\ op[p] = "Generate" =>
         LET alone == Generate(args[p], StreamOf(stream[p])) IN
           /\ Len(stream[p]) = DrawsOf(args[p])
           /\ ret[p] = [id |-> alone.id, err |-> alone.err]
           /\ alone.err = NoError =>
                /\ parts[p] = alone.parts
                /\ suffixValue[p] = alone.suffixValue
    /\ pc[p] = "return" /\ op[p] = "Parse" =>
         ret[p] = Parse(args[p].id, args[p].separator)
    /\ pc[p] = "return" /\ op[p] = "CalculateCombinations" =>
         ret[p] = CalculateCombinations(args[p].components, args[p].suffixRange)
    /\ pc[p] = "return" /\ op[p] = "CalculateCollisionProbability" =>
         ret[p] = CalculateCollisionProbability(args[p].totalCombinations,
                                                args[p].generatedIDs)
    /\ pc[p] = "return" /\ op[p] = "GetCollisionAnalysis" =>
         ret[p] = GetCollisionAnalysis(args[p].components, args[p].suffixRange)

\* Two calls of Generate whose draws alternated; the first has returned.
C17_Witness ==
  /\ pc[1] = "return"
  /\ op[1] = "Generate"
  /\ args[1].Suffix = "Number"
  /\ stream[1] = <<SourceValue(0), SourceValue(2), SourceValue(1)>>
  /\ InGenerate(2)
  /\ stream[2] = <<SourceValue(1), SourceValue(0)>>

(***************************************************************************)
(* C21.  The order of effects inside Generate.  The range check is made    *)
(* on the defaulted Components; a call that fails it returns at once, with *)
(* no draw from the random source and no call of the suffix producer.  A   *)
(* call that passes it draws one word after the other, the i-th from the   *)
(* i-th list; the suffix producer is called only when exactly n words      *)
(* have been drawn, in the single step between the loop and the join, and  *)
(* no word is drawn after it.                                              *)
(***************************************************************************)
Wanted(p) == DefaultComponents(args[p].Components)

\* The stages a call goes through, as pairs (from, to).
StageOrder ==
  { <<"idle", "loop">>, <<"idle", "return">>, <<"loop", "suffix">>,
    <<"suffix", "join">>, <<"join", "return">>, <<"return", "idle">> }

GenerateStages(p) ==
  /\ op[p] = "Generate" /\ pc[p] = "loop" =>
       /\ ValidComponents(Wanted(p))
       /\ Len(parts[p]) <= Wanted(p)
       /\ Len(stream[p]) = Len(parts[p])
       /\ suffixValue[p] = <<>>
  /\ op[p] = "Generate" /\ pc[p] = "suffix" =>
       /\ Len(parts[p]) = Wanted(p)
       /\ Len(stream[p]) = Wanted(p)
       /\ \A i \in 1..Wanted(p) : InList(parts[p][i], WordLists[i])
       /\ suffixValue[p] = <<>>
  /\ op[p] = "Generate" /\ pc[p] = "return" /\ ret[p].err # NoError =>
       /\ ~ValidComponents(Wanted(p))
       /\ stream[p] = <<>>
       /\ parts[p] = <<>>
       /\ suffixValue[p] = <<>>
  /\ op[p] = "Generate" /\ pc[p] = "return" /\ ret[p].err = NoError =>
       /\ ValidComponents(Wanted(p))
       /\ Len(stream[p]) = Wanted(p) + (IF args[p].Suffix = "Number" THEN 1 ELSE 0)

GenerateStep(p) ==
  /\ pc'[p] # pc[p] => <<pc[p], pc'[p]>> \in StageOrder
  /\ pc[p] = "idle" /\ op'[p] = "Generate" =>
       /\ stream'[p] = <<>> /\ source' = source
       /\ pc'[p] = "loop" <=> ValidComponents(DefaultComponents(args'[p].Components))
  /\ pc[p] = "loop" /\ pc'[p] = "suffix" =>
       Len(parts[p]) = Wanted(p) /\ stream'[p] = stream[p]
  /\ pc[p] = "loop" /\ stream'[p] # stream[p] =>
       /\ Len(parts[p]) < Wanted(p)
       /\ \E w \in Words(Len(parts[p]) + 1) : parts'[p] = Append(parts[p], w)
       /\ Len(stream'[p]) = Len(stream[p]) + 1
  /\ pc[p] \in {"join", "return"} /\ pc'[p] # "idle" =>
       /\ stream'[p] = stream[p]
       /\ suffixValue'[p] = suffixValue[p]
       /\ parts'[p] = parts[p]
  /\ pc[p] = "suffix" /\ pc'[p] = "join" =>
       /\ args[p].Suffix = "none" =>
            parts'[p] = parts[p] /\ stream'[p] = stream[p] /\ suffixValue'[p] = <<>>
       /\ args[p].Suffix # "none" =>
            /\ parts'[p] = AppendSuffix(parts[p], suffixValue'[p])
            /\ Len(stream'[p]) <= Len(stream[p]) + 1

C21_OrderOfEffects ==
  /\ [](\A p \in Callers : GenerateStages(p))
  /\ [][\A p \in Callers : GenerateStep(p)]_vars

\* A call has drawn its two words and then the producer's number, while
\* another call stands rejected with no draw.
C21_Witness ==
  \E p, q \in Callers :
    /\ op[p] = "Generate" /\ pc[p] = "join"
    /\ args[p].Components = 2 /\ args[p].Suffix = "Number"
    /\ Len(stream[p]) = 3
    /\ op[q] = "Generate" /\ pc[q] = "return"
    /\ ret[q].err = ErrComponents /\ stream[q] = <<>>

(***************************************************************************)
(* C22 as stated.  For every id and every non-empty separator, the         *)
(* components Parse returns, followed by the suffix when present, joined   *)
(* with the separator give back id, and they are one more than the         *)
(* occurrences of the separator in id.                                     *)
(* Fails when occurrences overlap: "--" occurs twice in "---", at indices  *)
(* 0 and 1, and Parse("---", "--") returns the two components "" and "-".  *)
(***************************************************************************)
\* The parts Parse returns, in order: the components, then the suffix.
Returned(parsed) == parsed.Components \o parsed.Suffix

\* The indices of s at which sep occurs.
Occurrences(s, sep) ==
  {i \in 1..(Len(s) - Len(sep) + 1) : SubSeq(s, i, i + Len(sep) - 1) = sep}

C22_ParseLosesNothing ==
  (op = "Parse" /\ args.separator # <<>>) =>
    /\ Join(Returned(ret), args.separator) = args.id
    /\ Len(Returned(ret)) = Cardinality(Occurrences(args.id, args.separator)) + 1
    /\ Len(Returned(ret)) >= 1

(***************************************************************************)
(* C22 as amended.  For every id and every non-empty separator, the        *)
(* components Parse returns, followed by the suffix when present, joined   *)
(* with the separator give back id, and they are one more than the         *)
(* non-overlapping occurrences of the separator in id, counted from the    *)
(* left (strings.Count); so they are at least one.                         *)
(***************************************************************************)
\* strings.Count(s, sep) from index i on, for a non-empty sep.
RECURSIVE CountFrom(_, _, _)
CountFrom(s, sep, i) ==
  IF i + Len(sep) - 1 > Len(s) THEN 0
  ELSE IF i \in Occurrences(s, sep) THEN 1 + CountFrom(s, sep, i + Len(sep))
  ELSE CountFrom(s, sep, i + 1)

C22_ParseLosesNothingCountedApart ==
  (op = "Parse" /\ args.separator # <<>>) =>
    /\ Join(Returned(ret), args.separator) = args.id
    /\ Len(Returned(ret)) = CountFrom(args.id, args.separator, 1) + 1
    /\ Len(Returned(ret)) >= 1

C22_Witness ==
  /\ op = "Parse"
  /\ args.id = <<"-", "-", "-">>
  /\ args.separator = <<"-", "-">>
  /\ ret.Components = << <<>>, <<"-">> >>
  /\ ret.Suffix = <<>>
  /\ CountFrom(args.id, args.separator, 1) = 1

(***************************************************************************)
(* C23.  The scenarios of GetCollisionAnalysis are the first candidates,   *)
(* in order, with none skipped; each has 1 < IDs < TotalCombinations and   *)
(* the Probability CalculateCollisionProbability(TotalCombinations, IDs)   *)
(* computes by the birthday formula, not its literal 0.0 or 1.0; for       *)
(* components outside 1..5 TotalCombinations is 0 and there is no          *)
(* scenario.                                                               *)
(***************************************************************************)
C23_ScenariosArePrefixInRange ==
  op = "GetCollisionAnalysis" =>
    LET total == ret.TotalCombinations
        shown == ret.Scenarios
    IN
      /\ Len(shown) <= Len(Candidates)
      /\ \A k \in 1..Len(shown) :
           /\ shown[k].IDs = Candidates[k]
           /\ 1 < shown[k].IDs
           /\ shown[k].IDs < total
           /\ shown[k].Probability = CalculateCollisionProbability(total, shown[k].IDs)
           /\ shown[k].Probability.value = "1.0 - math.Exp(exponent)"
           /\ shown[k].Probability.den = total
      /\ args.components \notin 1..5 => total = 0 /\ shown = <<>>

C23_Witness ==
  /\ op = "GetCollisionAnalysis"
  /\ args.components = 1
  /\ args.suffixRange = 12
  /\ ret.TotalCombinations = 1044
  /\ Len(ret.Scenarios) = 4
  /\ ret.Scenarios[4].IDs = 500

(***************************************************************************)
(* C24.  Parse(id, "-") of a result of Generate with the separator "-"     *)
(* reports a suffix exactly when the producer returned a non-empty run of  *)
(* decimal digits, and then that string; any other string the producer     *)
(* returned is the last component: always so for a Letter suffix and for   *)
(* the empty string, and for a Hex suffix unless both its characters are   *)
(* decimal digits.                                                         *)
(***************************************************************************)
C24_SuffixRecoveredIffDigits ==
  (GenerateReturned /\ args.Separator \in {<<>>, Dash}) =>
    LET parsed == Parse(ret.id, Dash)
        last == parsed.Components[Len(parsed.Components)]
    IN
      /\ suffixValue = <<>> => parsed.Suffix = <<>>
      /\ suffixValue # <<>> =>
           /\ parsed.Suffix # <<>> <=> OnlyDigits(suffixValue[1])
           /\ OnlyDigits(suffixValue[1]) => parsed.Suffix = suffixValue
           /\ ~OnlyDigits(suffixValue[1]) =>
                Len(parsed.Components) >= 2 /\ last = suffixValue[1]
      /\ args.Suffix = "Letter" => parsed.Suffix = <<>> /\ Len(last) = 1
      /\ args.Suffix = "empty" => parsed.Suffix = <<>> /\ last = <<>>
      /\ args.Suffix = "Hex" =>
           parsed.Suffix # <<>> <=> (suffixValue[1][1] \in Digits /\ suffixValue[1][2] \in Digits)

\* A Hex suffix with a letter in it comes back as the last component.
C24_Witness ==
  /\ GenerateReturned
  /\ args.Separator = Dash
  /\ args.Suffix = "Hex"
  /\ suffixValue = << <<"1", "f">> >>
  /\ Parse(ret.id, Dash).Suffix = <<>>
  /\ Len(Parse(ret.id, Dash).Components) = Requested + 1

=============================================================================
